---------------------------- MODULE Spec2Model ----------------------------
(***************************************************************************)
(* Model of the power assertion client (src/src/power.c, power.h) and of   *)
(* the idevicepower driver (src/tools/idevicepower.c).                     *)
(*                                                                         *)
(* The property-list transport (property_list_service), lockdownd and      *)
(* the device layer are external collaborators: their results are inputs   *)
(* drawn from small sets.                                                  *)
(***************************************************************************)
EXTENDS Integers, Sequences, FiniteSets, TLC

-----------------------------------------------------------------------------
(* Bounds of the model *)

MaxClients == 2
MaxDocs == 3

-----------------------------------------------------------------------------
(* power_error_t, power.h *)

POWER_E_SUCCESS == 0
POWER_E_INVALID_ARG == -1
POWER_E_PLIST_ERROR == -2
POWER_E_MUX_ERROR == -3
POWER_E_SSL_ERROR == -4
POWER_E_NOT_ENOUGH_DATA == -5
POWER_E_TIMEOUT == -6
POWER_E_UNKNOWN_ERROR == -256

PowerErrors ==
    { POWER_E_SUCCESS, POWER_E_INVALID_ARG, POWER_E_PLIST_ERROR,
      POWER_E_MUX_ERROR, POWER_E_SSL_ERROR, POWER_E_NOT_ENOUGH_DATA,
      POWER_E_TIMEOUT, POWER_E_UNKNOWN_ERROR }

(* property_list_service_error_t: the codes power_error names, plus two
   codes outside its switch (the transport's own unknown error and a code
   the transport might grow later). *)
DefinedTransportCodes ==
    { "PROPERTY_LIST_SERVICE_E_SUCCESS",
      "PROPERTY_LIST_SERVICE_E_INVALID_ARG",
      "PROPERTY_LIST_SERVICE_E_PLIST_ERROR",
      "PROPERTY_LIST_SERVICE_E_MUX_ERROR",
      "PROPERTY_LIST_SERVICE_E_SSL_ERROR",
      "PROPERTY_LIST_SERVICE_E_NOT_ENOUGH_DATA",
      "PROPERTY_LIST_SERVICE_E_RECEIVE_TIMEOUT" }

TransportCodes ==
    DefinedTransportCodes \cup
        { "PROPERTY_LIST_SERVICE_E_UNKNOWN_ERROR", "PROPERTY_LIST_SERVICE_E_OTHER" }

NULL == 0

-----------------------------------------------------------------------------
(* power.c: the translation table *)

power_error_timeout_as_not_enough_data(err) ==
    CASE err = "PROPERTY_LIST_SERVICE_E_SUCCESS" -> POWER_E_SUCCESS
      [] err = "PROPERTY_LIST_SERVICE_E_INVALID_ARG" -> POWER_E_INVALID_ARG
      [] err = "PROPERTY_LIST_SERVICE_E_PLIST_ERROR" -> POWER_E_PLIST_ERROR
      [] err = "PROPERTY_LIST_SERVICE_E_MUX_ERROR" -> POWER_E_MUX_ERROR
      [] err = "PROPERTY_LIST_SERVICE_E_SSL_ERROR" -> POWER_E_SSL_ERROR
      [] err = "PROPERTY_LIST_SERVICE_E_NOT_ENOUGH_DATA" -> POWER_E_NOT_ENOUGH_DATA
      [] err = "PROPERTY_LIST_SERVICE_E_RECEIVE_TIMEOUT" -> POWER_E_NOT_ENOUGH_DATA
      [] OTHER -> POWER_E_UNKNOWN_ERROR

power_error(err) ==
    CASE err = "PROPERTY_LIST_SERVICE_E_SUCCESS" -> POWER_E_SUCCESS
      [] err = "PROPERTY_LIST_SERVICE_E_INVALID_ARG" -> POWER_E_INVALID_ARG
      [] err = "PROPERTY_LIST_SERVICE_E_PLIST_ERROR" -> POWER_E_PLIST_ERROR
      [] err = "PROPERTY_LIST_SERVICE_E_MUX_ERROR" -> POWER_E_MUX_ERROR
      [] err = "PROPERTY_LIST_SERVICE_E_SSL_ERROR" -> POWER_E_SSL_ERROR
      [] err = "PROPERTY_LIST_SERVICE_E_NOT_ENOUGH_DATA" -> POWER_E_NOT_ENOUGH_DATA
      [] err = "PROPERTY_LIST_SERVICE_E_RECEIVE_TIMEOUT" -> POWER_E_TIMEOUT
      [] OTHER -> POWER_E_UNKNOWN_ERROR

-----------------------------------------------------------------------------
(* power.c: the client operations.  Each operator computes what one call
   does from its arguments and from what the transport primitive it invokes
   reports; the actions below apply the result to the heap.

   ub marks a call that dereferences a null pointer (undefined behaviour);
   the other fields of such a result are not meaningful. *)

(* power_client_new(device, service, client).
     device, service : handles (NULL or not); port is service->port
     clientp         : the address of the caller's slot (NULL or not)
     slotVal         : what the slot holds on entry
     openErr         : what property_list_service_client_new reports
     newClient       : the client malloc returns *)
power_client_new_allocates_before_open(device, service, port, clientp, slotVal, openErr, newClient) ==
    IF clientp = NULL
    THEN [ub |-> TRUE, ret |-> POWER_E_UNKNOWN_ERROR, slot |-> slotVal,
          opened |-> FALSE, alloc |-> FALSE]
    ELSE IF device = NULL \/ service = NULL \/ port = 0
         THEN [ub |-> FALSE, ret |-> POWER_E_INVALID_ARG, slot |-> NULL,
               opened |-> FALSE, alloc |-> FALSE]
         ELSE IF newClient = NULL
         THEN [ub |-> TRUE, ret |-> POWER_E_UNKNOWN_ERROR, slot |-> NULL,
               opened |-> FALSE, alloc |-> FALSE]
         ELSE [ub |-> FALSE, ret |-> power_error(openErr), slot |-> newClient,
               opened |-> TRUE, alloc |-> TRUE]

power_client_new(device, service, port, clientp, slotVal, openErr, newClient) ==
    IF clientp = NULL
    THEN \* line 67 stores through the null pointer before line 69 tests it
         [ub |-> TRUE, ret |-> POWER_E_UNKNOWN_ERROR, slot |-> slotVal,
          opened |-> FALSE, alloc |-> FALSE]
    ELSE LET slot1 == NULL   \* *client = NULL;
         IN  IF device = NULL \/ service = NULL \/ port = 0 \/ slot1 # NULL
             THEN [ub |-> FALSE, ret |-> POWER_E_INVALID_ARG, slot |-> slot1,
                   opened |-> FALSE, alloc |-> FALSE]
             ELSE IF power_error(openErr) # POWER_E_SUCCESS
                  THEN [ub |-> FALSE, ret |-> power_error(openErr), slot |-> slot1,
                        opened |-> TRUE, alloc |-> FALSE]
                  ELSE IF newClient = NULL
                  THEN \* line 84 stores through the unchecked result of malloc
                       [ub |-> TRUE, ret |-> POWER_E_UNKNOWN_ERROR, slot |-> slot1,
                        opened |-> TRUE, alloc |-> FALSE]
                  ELSE [ub |-> FALSE, ret |-> POWER_E_SUCCESS, slot |-> newClient,
                        opened |-> TRUE, alloc |-> TRUE]

(* power_client_free(client).
     closeErr : what property_list_service_client_free reports
     closes   : how many times the owned session is closed
     freed    : whether the client's memory is released *)
power_client_free_keeps_client_on_error(client, closeErr) ==
    IF client = NULL
    THEN [ret |-> POWER_E_INVALID_ARG, closes |-> 0, freed |-> FALSE]
    ELSE [ret |-> power_error(closeErr), closes |-> 1,
          freed |-> (power_error(closeErr) = POWER_E_SUCCESS)]

power_client_free_closes_twice(client, closeErr) ==
    IF client = NULL
    THEN [ret |-> POWER_E_INVALID_ARG, closes |-> 0, freed |-> FALSE]
    ELSE [ret |-> power_error(closeErr), closes |-> 2, freed |-> TRUE]

power_client_free(client, closeErr) ==
    IF client = NULL
    THEN [ret |-> POWER_E_INVALID_ARG, closes |-> 0, freed |-> FALSE]
    ELSE [ret |-> power_error(closeErr), closes |-> 1, freed |-> TRUE]

(* power_send(client, plist).
     sendErr : what property_list_service_send_binary_plist reports
     sent    : whether that primitive is invoked *)
power_send(client, plist, sendErr) ==
    IF client = NULL
    THEN \* client->parent with client == NULL
         [ub |-> TRUE, ret |-> POWER_E_UNKNOWN_ERROR, sent |-> FALSE]
    ELSE [ub |-> FALSE, ret |-> power_error(sendErr), sent |-> TRUE]

(* power_receive_with_timeout(client, plist, timeout_ms).
     slotVal  : what *plist holds on entry
     recvErr  : what property_list_service_receive_plist_with_timeout reports
     outplist : the document that primitive stored (NULL when none)
     released : the document plist_free is called on (plist_free(NULL) does
                nothing) *)
power_receive_with_timeout_accepts_null(client, slotVal, timeout_ms, recvErr, outplist) ==
    IF client = NULL
    THEN [ub |-> TRUE, ret |-> POWER_E_UNKNOWN_ERROR, slot |-> slotVal,
          received |-> FALSE, timeout |-> timeout_ms, released |-> NULL]
    ELSE IF power_error(recvErr) # POWER_E_SUCCESS
         THEN [ub |-> FALSE, ret |-> POWER_E_MUX_ERROR, slot |-> slotVal,
               received |-> TRUE, timeout |-> timeout_ms, released |-> outplist]
         ELSE [ub |-> FALSE, ret |-> power_error(recvErr), slot |-> outplist,
               received |-> TRUE, timeout |-> timeout_ms, released |-> NULL]

power_receive_with_timeout_writes_slot_on_failure(client, slotVal, timeout_ms, recvErr, outplist) ==
    IF client = NULL
    THEN [ub |-> TRUE, ret |-> POWER_E_UNKNOWN_ERROR, slot |-> slotVal,
          received |-> FALSE, timeout |-> timeout_ms, released |-> NULL]
    ELSE IF power_error(recvErr) # POWER_E_SUCCESS \/ outplist = NULL
         THEN [ub |-> FALSE, ret |-> POWER_E_MUX_ERROR, slot |-> outplist,
               received |-> TRUE, timeout |-> timeout_ms, released |-> outplist]
         ELSE [ub |-> FALSE, ret |-> power_error(recvErr), slot |-> outplist,
               received |-> TRUE, timeout |-> timeout_ms, released |-> NULL]

power_receive_with_timeout(client, slotVal, timeout_ms, recvErr, outplist) ==
    IF client = NULL
    THEN \* client->parent with client == NULL
         [ub |-> TRUE, ret |-> POWER_E_UNKNOWN_ERROR, slot |-> slotVal,
          received |-> FALSE, timeout |-> timeout_ms, released |-> NULL]
    ELSE IF power_error(recvErr) # POWER_E_SUCCESS \/ outplist = NULL
         THEN [ub |-> FALSE, ret |-> POWER_E_MUX_ERROR, slot |-> slotVal,
               received |-> TRUE, timeout |-> timeout_ms, released |-> outplist]
         ELSE [ub |-> FALSE, ret |-> power_error(recvErr), slot |-> outplist,
               received |-> TRUE, timeout |-> timeout_ms, released |-> NULL]

DefaultReceiveTimeout == 1000

(* power_receive(client, plist) *)
power_receive_with_long_timeout(client, slotVal, recvErr, outplist) ==
    power_receive_with_timeout(client, slotVal, 5000, recvErr, outplist)

power_receive(client, slotVal, recvErr, outplist) ==
    power_receive_with_timeout(client, slotVal, DefaultReceiveTimeout, recvErr, outplist)

-----------------------------------------------------------------------------
(* The state.

   A caller of the client API (the library's contract):
     clients   the power_client_private objects: st is "unalloc", "live" or
               "freed", parent the session the client wraps
     sessions  the transport sessions: st is "unopened", "open" or "closed",
               closes counts the calls of the transport's close on it
     docs      the property-list documents: "unalloc", "live" or "freed"
     slot      the caller's power_client_t variable
     doc       the caller's plist_t output variable
     req       the document the caller sends
     last      the call made last
     crashed   the process died in a call *)
VARIABLES clients, sessions, docs, slot, doc, req, last, crashed

libvars == <<clients, sessions, docs, slot, doc, req, last, crashed>>

ClientIds == 1..MaxClients
SessionIds == 1..MaxClients
DocIds == 1..MaxDocs

(* The smallest identifier not handed out yet, NULL when none is left. *)
FreshClient ==
    IF \E c \in ClientIds : clients[c].st = "unalloc"
    THEN CHOOSE c \in ClientIds :
            /\ clients[c].st = "unalloc"
            /\ \A d \in ClientIds : clients[d].st = "unalloc" => c <= d
    ELSE NULL

FreshSession ==
    IF \E x \in SessionIds : sessions[x].st = "unopened"
    THEN CHOOSE x \in SessionIds :
            /\ sessions[x].st = "unopened"
            /\ \A y \in SessionIds : sessions[y].st = "unopened" => x <= y
    ELSE NULL

FreshDoc ==
    IF \E d \in DocIds : docs[d] = "unalloc"
    THEN CHOOSE d \in DocIds :
            /\ docs[d] = "unalloc"
            /\ \A e \in DocIds : docs[e] = "unalloc" => d <= e
    ELSE NULL

(* The record of one call.  Fields a call does not use hold NULL, FALSE or
   "none".  xerr is what the transport primitive reported, xcalled whether it
   was invoked; afterNew says of a free that the call right before it was a
   new on a valid device and service whose session the transport opened, and
   newRet is what that new returned. *)
NoCall ==
    [op |-> "none", returned |-> FALSE, ret |-> POWER_E_SUCCESS,
     device |-> NULL, service |-> NULL, port |-> 0, clientp |-> NULL,
     client |-> NULL, plist |-> NULL,
     slotBefore |-> NULL, slotAfter |-> NULL,
     xerr |-> "none", xcalled |-> FALSE, session |-> NULL,
     outplist |-> NULL, released |-> NULL, timeout |-> 0,
     afterNew |-> FALSE, newRet |-> POWER_E_SUCCESS]

(* The clients the caller may pass: NULL or the live client it holds. *)
ClientArgs ==
    {NULL} \cup (IF slot # NULL /\ clients[slot].st = "live" THEN {slot} ELSE {})

LibInit ==
    /\ clients = [c \in ClientIds |-> [st |-> "unalloc", parent |-> NULL]]
    /\ sessions = [x \in SessionIds |-> [st |-> "unopened", closes |-> 0]]
    /\ docs = [d \in DocIds |-> IF d = 1 THEN "live" ELSE "unalloc"]
    /\ slot = NULL
    /\ doc = NULL
    /\ req = 1
    /\ last = NoCall
    /\ crashed = FALSE

(* A call that dies: the store or load through a null pointer traps. *)
Crash(call) ==
    /\ crashed' = TRUE
    /\ last' = [call EXCEPT !.returned = FALSE]
    /\ UNCHANGED <<clients, sessions, docs, slot, doc, req>>

(* Caller: power_client_new(device, service, &slot) or with a null address. *)
NewCall ==
    /\ ~crashed
    /\ FreshClient # NULL /\ FreshSession # NULL
    /\ \E device \in {NULL, 1}, service \in {NULL, 1}, port \in {0, 49152},
          clientp \in {NULL, 1}, openErr \in TransportCodes,
          newClient \in {NULL, FreshClient} :
        LET r == power_client_new(device, service, port, clientp, slot,
                                  openErr, newClient)
            xs == IF r.opened /\ openErr = "PROPERTY_LIST_SERVICE_E_SUCCESS"
                  THEN FreshSession ELSE NULL
            call == [NoCall EXCEPT !.op = "new", !.device = device,
                        !.service = service, !.port = port, !.clientp = clientp,
                        !.slotBefore = slot,
                        !.xerr = IF r.opened THEN openErr ELSE "none",
                        !.xcalled = r.opened, !.session = xs]
        IN  /\ service = NULL => port = 0
            /\ IF r.ub
               THEN \* *client = NULL with client == NULL: the store traps, or
                    \* it does not and the test of line 69 rejects the call;
                    \* client_loc->parent with client_loc == NULL traps
                    \/ Crash(call)
                    \/ /\ clientp = NULL
                       /\ last' = [call EXCEPT !.returned = TRUE,
                                               !.ret = POWER_E_INVALID_ARG,
                                               !.slotAfter = slot]
                       /\ UNCHANGED <<clients, sessions, docs, slot, doc, req, crashed>>
               ELSE /\ slot' = r.slot
                    /\ sessions' = IF xs # NULL
                                   THEN [sessions EXCEPT ![xs].st = "open"]
                                   ELSE sessions
                    /\ clients' = IF r.alloc
                                  THEN [clients EXCEPT ![FreshClient] =
                                           [st |-> "live", parent |-> xs]]
                                  ELSE clients
                    /\ last' = [call EXCEPT !.returned = TRUE, !.ret = r.ret,
                                            !.slotAfter = r.slot,
                                            !.client = IF r.alloc THEN FreshClient ELSE NULL]
                    /\ UNCHANGED <<docs, doc, req, crashed>>

(* Caller: power_client_free(client); the caller then forgets the handle. *)
FreeCall ==
    /\ ~crashed
    /\ \E client \in ClientArgs, closeErr \in TransportCodes :
        LET r == power_client_free(client, closeErr)
            xs == IF client = NULL THEN NULL ELSE clients[client].parent
            afterNew == /\ client # NULL
                        /\ last.op = "new" /\ last.returned
                        /\ last.device # NULL /\ last.service # NULL
                        /\ last.port # 0 /\ last.clientp # NULL
                        /\ last.xerr = "PROPERTY_LIST_SERVICE_E_SUCCESS"
                        /\ last.session = xs
        IN  /\ sessions' = IF r.closes > 0
                           THEN [sessions EXCEPT ![xs].st = "closed",
                                                 ![xs].closes = @ + r.closes]
                           ELSE sessions
            /\ clients' = IF r.freed
                          THEN [clients EXCEPT ![client].st = "freed"]
                          ELSE clients
            /\ slot' = IF client = NULL THEN slot ELSE NULL
            /\ last' = [NoCall EXCEPT !.op = "free", !.returned = TRUE,
                           !.ret = r.ret, !.client = client,
                           !.xerr = IF r.closes > 0 THEN closeErr ELSE "none",
                           !.xcalled = (r.closes > 0), !.session = xs,
                           !.afterNew = afterNew,
                           !.newRet = IF afterNew THEN last.ret ELSE POWER_E_SUCCESS]
            /\ UNCHANGED <<docs, doc, req, crashed>>

(* The transport's send primitive rejects a null document itself. *)
SendResults(plist) ==
    IF plist = NULL THEN {"PROPERTY_LIST_SERVICE_E_INVALID_ARG"} ELSE TransportCodes

(* Caller: power_send(client, plist). *)
SendCall ==
    /\ ~crashed
    /\ \E client \in ClientArgs, plist \in {NULL, req} :
       \E sendErr \in SendResults(plist) :
        LET r == power_send(client, plist, sendErr)
            call == [NoCall EXCEPT !.op = "send", !.client = client, !.plist = plist]
        IN  IF r.ub
            THEN \* client->parent with client == NULL: the load traps, or it
                 \* yields garbage that is handed to the transport
                 \/ Crash(call)
                 \/ /\ last' = [call EXCEPT !.returned = TRUE,
                                            !.ret = power_error(sendErr),
                                            !.xerr = sendErr, !.xcalled = TRUE]
                    /\ UNCHANGED <<clients, sessions, docs, slot, doc, req, crashed>>
            ELSE /\ last' = [call EXCEPT !.returned = TRUE, !.ret = r.ret,
                                !.xerr = IF r.sent THEN sendErr ELSE "none",
                                !.xcalled = r.sent,
                                !.session = clients[client].parent]
                 /\ UNCHANGED <<clients, sessions, docs, slot, doc, req, crashed>>

(* The transport's receive primitive, receiveDocument(session, timeoutMs):
     arrival : the time in ms at which a complete document is there, negative
               when none ever is
     fault   : "none", or the fault the transport reports instead
     withDoc : whether a document is stored (none on a clean close, or a
               partial one beside a fault)
   A document that is not there before the deadline is a receive timeout. *)
property_list_service_receive(timeout_ms, arrival, fault, withDoc) ==
    IF fault # "none"
    THEN [err |-> fault, hasDoc |-> withDoc]
    ELSE IF arrival < 0 \/ arrival >= timeout_ms
         THEN [err |-> "PROPERTY_LIST_SERVICE_E_RECEIVE_TIMEOUT", hasDoc |-> FALSE]
         ELSE [err |-> "PROPERTY_LIST_SERVICE_E_SUCCESS", hasDoc |-> withDoc]

ReceiveFaults ==
    {"none"} \cup (TransportCodes \ { "PROPERTY_LIST_SERVICE_E_SUCCESS",
                                      "PROPERTY_LIST_SERVICE_E_RECEIVE_TIMEOUT" })

(* What one receive call does, by variant. *)
ReceiveResult(variant, client, slotVal, timeout_ms, recvErr, outplist) ==
    IF variant = "receive"
    THEN power_receive(client, slotVal, recvErr, outplist)
    ELSE power_receive_with_timeout(client, slotVal, timeout_ms, recvErr, outplist)

(* Caller: power_receive(client, &doc) or
   power_receive_with_timeout(client, &doc, timeout_ms). *)
RecvCall ==
    /\ ~crashed
    /\ FreshDoc # NULL
    /\ \E client \in ClientArgs, variant \in {"receive", "receive_with_timeout"},
          timeout_ms \in {1000, 5000}, arrival \in {-1, 999, 1000},
          fault \in ReceiveFaults, withDoc \in BOOLEAN :
        LET \* the timeout the call hands to the transport
            t == ReceiveResult(variant, client, doc, timeout_ms,
                               "PROPERTY_LIST_SERVICE_E_SUCCESS", NULL).timeout
            x == property_list_service_receive(t, arrival, fault, withDoc)
            outplist == IF x.hasDoc THEN FreshDoc ELSE NULL
            r == ReceiveResult(variant, client, doc, timeout_ms, x.err, outplist)
            call == [NoCall EXCEPT !.op = variant, !.client = client,
                        !.slotBefore = doc, !.timeout = r.timeout]
        IN  /\ variant = "receive" => timeout_ms = DefaultReceiveTimeout
            /\ x.err = "PROPERTY_LIST_SERVICE_E_RECEIVE_TIMEOUT" => ~withDoc
            /\ IF r.ub
               THEN \* client->parent with client == NULL: the load traps, or it
                    \* yields garbage the transport rejects
                    \/ Crash(call)
                    \/ /\ fault # "none" /\ ~withDoc
                       /\ last' = [call EXCEPT !.returned = TRUE,
                                               !.ret = POWER_E_MUX_ERROR,
                                               !.slotAfter = doc,
                                               !.xerr = fault, !.xcalled = TRUE]
                       /\ UNCHANGED <<clients, sessions, docs, slot, doc, req, crashed>>
               ELSE /\ doc' = r.slot
                    /\ docs' = IF outplist = NULL THEN docs
                               ELSE [docs EXCEPT ![outplist] =
                                        IF r.released = outplist THEN "freed" ELSE "live"]
                    /\ last' = [call EXCEPT !.returned = TRUE, !.ret = r.ret,
                                   !.slotAfter = r.slot,
                                   !.xerr = IF r.received THEN x.err ELSE "none",
                                   !.xcalled = r.received,
                                   !.session = clients[client].parent,
                                   !.outplist = outplist, !.released = r.released]
                    /\ UNCHANGED <<clients, sessions, slot, req, crashed>>

(* Caller: plist_free(doc); doc = NULL. *)
ReleaseDoc ==
    /\ ~crashed
    /\ doc # NULL /\ docs[doc] = "live"
    /\ docs' = [docs EXCEPT ![doc] = "freed"]
    /\ doc' = NULL
    /\ last' = [NoCall EXCEPT !.op = "plist_free", !.returned = TRUE, !.plist = doc]
    /\ UNCHANGED <<clients, sessions, slot, req, crashed>>

(* A use of the translation table on one transport code. *)
TranslateCall ==
    /\ ~crashed
    /\ \E err \in TransportCodes :
        /\ last' = [NoCall EXCEPT !.op = "power_error", !.returned = TRUE,
                       !.xerr = err, !.ret = power_error(err)]
    /\ UNCHANGED <<clients, sessions, docs, slot, doc, req, crashed>>

-----------------------------------------------------------------------------
(* idevicepower.c: the driver, one run of main(). *)

(* enum cmd_mode *)
CMD_NONE == 0
CMD_WIRELESS_SYNC == 1
CMD_USER_IDLE_SLEEP == 2
CMD_SYSTEM_SLEEP == 3

(* <stdlib.h> *)
EXIT_SUCCESS == 0
EXIT_FAILURE == 1

(* The default of the timeout option, in seconds. *)
DefaultTimeout == 60

(* The most options on a command line of the model. *)
MaxOpts == 2

(* atoi on the option arguments of the model: the leading decimal number,
   0 when there is none. *)
atoi(str) ==
    CASE str = "-1" -> -1
      [] str = "0" -> 0
      [] str = "5" -> 5
      [] str = "10" -> 10
      [] str = "11" -> 11
      [] str = "30" -> 30
      [] str = "30s" -> 30
      [] OTHER -> 0

TimeoutArgs == {"", "-1", "0", "5", "10", "11", "30", "30s", "abc"}

(* One option as getopt_long returns it: its letter ("?" for an unknown
   option) and optarg. *)
Options ==
    [c : {"d", "n", "h", "v", "?"}, optarg : {""}]
        \cup [c : {"u"}, optarg : {"", "00008030"}]
        \cup [c : {"t"}, optarg : TimeoutArgs]

(* The words a command line of the model has after its options; "" is no
   word at all (argv[0] == NULL). *)
Commands == {"", "sync", "idle", "sleep", "foo"}

RECURSIVE SeqsUpTo(_, _)
SeqsUpTo(S, n) ==
    IF n = 0 THEN {<<>>}
    ELSE LET shorter == SeqsUpTo(S, n - 1)
         IN  shorter \cup {Append(q, x) : q \in shorter, x \in S}

(* The resources of a run and how often each was acquired and released. *)
Resources == {"device", "lockdown", "service", "client", "session",
              "request", "response"}

(* One operation of the run; ret is the power_error_t a client operation
   returned, 0 for the others. *)
EvRet(op, ret) == [op |-> op, ret |-> ret]
Ev(op) == EvRet(op, 0)

Acquire(r, n) == [r EXCEPT ![n].acq = @ + 1]
Release(r, n) == [r EXCEPT ![n].rel = @ + 1]
ReleaseTimes(r, n, k) == [r EXCEPT ![n].rel = @ + k]

(*   pc            where main() is
     optv          the options of the command line, as getopt_long returns
                   them in turn
     optind        the place of the option getopt_long returns next
     cmdArg        argv[0] after the options
     timeout, udid, use_network, cmd, result, power_client, assertion,
     device, service
                   main()'s locals of these names (handles: NULL or 1;
                   udid: "" for NULL); port is service->port
     perr          the power_error_t of the last client call
     status        what main() returned (meaningful at pc = "exit")
     usage         where print_usage wrote: "none", "stdout" or "stderr"
     res           the resources' acquire and release counts
     events        the operations of the run, in order
     request       the document handed to power_send
     slept         the argument of sleep(), -1 before it *)
VARIABLES pc, optv, optind, cmdArg, timeout, udid, use_network, cmd, result,
          power_client, assertion, device, service, port, perr, status,
          usage, res, events, request, slept

drvvars == <<pc, optv, optind, cmdArg, timeout, udid, use_network, cmd, result,
             power_client, assertion, device, service, port, perr, status,
             usage, res, events, request, slept>>

vars == <<libvars, drvvars>>

NoRequest ==
    [built |-> FALSE, CommandKey |-> "", AssertionTypeKey |-> "",
     AssertionNameKey |-> "", AssertionTimeoutKey |-> 0,
     AssertionDetailKey |-> ""]

(* main()'s locals as declared at lines 78-90. *)
DrvLocals ==
    /\ timeout = DefaultTimeout
    /\ udid = ""
    /\ use_network = FALSE
    /\ cmd = CMD_NONE
    /\ result = EXIT_FAILURE
    /\ power_client = NULL
    /\ assertion = NULL
    /\ device = NULL
    /\ service = NULL
    /\ port = 0
    /\ perr = POWER_E_SUCCESS
    /\ status = 0
    /\ usage = "none"
    /\ res = [n \in Resources |-> [acq |-> 0, rel |-> 0]]
    /\ events = <<>>
    /\ request = NoRequest
    /\ slept = -1

DrvInit ==
    /\ pc = "getopt"
    /\ optv \in SeqsUpTo(Options, MaxOpts)
    /\ optind = 1
    /\ cmdArg \in Commands
    /\ DrvLocals

(* The driver at rest, while the client API is exercised on its own. *)
DrvParked ==
    /\ pc = "parked"
    /\ optv = <<>>
    /\ optind = 1
    /\ cmdArg = ""
    /\ DrvLocals

(* The caller of the client API at rest, while the driver runs. *)
LibParked == LibInit

(* return <code> from main(). *)
Return(code) ==
    /\ pc' = "exit"
    /\ status' = code

(* Line 125: the test that rejects a timeout. *)
InvalidTimeout_negative_only(value) == value < 0

InvalidTimeout(value) == value <= 0

(* One turn of the getopt_long loop, lines 105-144; when no option is left,
   argv is advanced past the options (lines 145-146). *)
GetOpt ==
    /\ pc = "getopt"
    /\ IF optind > Len(optv)
       THEN /\ pc' = "command"
            /\ UNCHANGED <<optind, timeout, udid, use_network, status, usage>>
       ELSE LET o == optv[optind]
            IN  /\ optind' = optind + 1
                /\ CASE o.c = "d" ->
                          /\ UNCHANGED <<pc, timeout, udid, use_network, status, usage>>
                     [] o.c = "u" ->
                          IF o.optarg = ""
                          THEN /\ usage' = "stderr"
                               /\ Return(2)
                               /\ UNCHANGED <<timeout, udid, use_network>>
                          ELSE /\ udid' = o.optarg
                               /\ UNCHANGED <<pc, timeout, use_network, status, usage>>
                     [] o.c = "t" ->
                          IF o.optarg = ""
                          THEN /\ usage' = "stderr"
                               /\ Return(2)
                               /\ UNCHANGED <<timeout, udid, use_network>>
                          ELSE /\ timeout' = atoi(o.optarg)
                               /\ IF InvalidTimeout(atoi(o.optarg))
                                  THEN /\ usage' = "stderr"
                                       /\ Return(2)
                                  ELSE UNCHANGED <<pc, status, usage>>
                               /\ UNCHANGED <<udid, use_network>>
                     [] o.c = "n" ->
                          /\ use_network' = TRUE
                          /\ UNCHANGED <<pc, timeout, udid, status, usage>>
                     [] o.c = "h" ->
                          /\ usage' = "stdout"
                          /\ Return(0)
                          /\ UNCHANGED <<timeout, udid, use_network>>
                     [] o.c = "v" ->
                          /\ Return(0)
                          /\ UNCHANGED <<timeout, udid, use_network, usage>>
                     [] OTHER ->
                          /\ usage' = "stderr"
                          /\ Return(2)
                          /\ UNCHANGED <<timeout, udid, use_network>>
    /\ UNCHANGED <<optv, cmdArg, cmd, result, power_client, assertion, device,
                   service, port, perr, res, events, request, slept>>

(* The command word as lines 154-162 read it. *)
CommandMode(word) ==
    IF word = "sync" THEN CMD_WIRELESS_SYNC
    ELSE IF word = "idle" THEN CMD_USER_IDLE_SLEEP
    ELSE IF word = "sleep" THEN CMD_SYSTEM_SLEEP
    ELSE CMD_NONE

(* Lines 148-169: the command word. *)
Command ==
    /\ pc = "command"
    /\ IF cmdArg = ""
       THEN /\ usage' = "stderr"
            /\ Return(2)
            /\ UNCHANGED cmd
       ELSE /\ cmd' = CommandMode(cmdArg)
            /\ IF CommandMode(cmdArg) = CMD_NONE
               THEN /\ usage' = "stderr"
                    /\ pc' = "cleanup"
               ELSE /\ pc' = "device_new"
                    /\ UNCHANGED usage
            /\ UNCHANGED status
    /\ UNCHANGED <<optv, optind, cmdArg, timeout, udid, use_network, result,
                   power_client, assertion, device, service, port, perr,
                   res, events, request, slept>>

(* Lines 171-178: idevice_new_with_options. *)
DeviceNew ==
    /\ pc = "device_new"
    /\ events' = Append(events, Ev("idevice_new"))
    /\ \E found \in BOOLEAN :
        IF found
        THEN /\ device' = 1
             /\ res' = Acquire(res, "device")
             /\ pc' = "handshake"
        ELSE /\ pc' = "cleanup"
             /\ UNCHANGED <<device, res>>
    /\ UNCHANGED <<optv, optind, cmdArg, timeout, udid, use_network, cmd, result,
                   power_client, assertion, service, port, perr, status,
                   usage, request, slept>>

(* Lines 180-184: lockdownd_client_new_with_handshake. *)
Handshake ==
    /\ pc = "handshake"
    /\ \E ok \in BOOLEAN :
        IF ok
        THEN /\ res' = Acquire(res, "lockdown")
             /\ events' = Append(events, Ev("handshake"))
             /\ pc' = "start_service"
        ELSE /\ res' = Release(res, "device")
             /\ events' = Append(Append(events, Ev("handshake")), Ev("idevice_free"))
             /\ pc' = "cleanup"
    /\ UNCHANGED <<optv, optind, cmdArg, timeout, udid, use_network, cmd, result,
                   power_client, assertion, device, service, port, perr,
                   status, usage, request, slept>>

(* Lines 186-193: lockdownd_start_service, then lockdownd_client_free.  A
   started service comes with a descriptor, which may be unusable (port 0);
   a start that reports success may also leave no descriptor. *)
StartService ==
    /\ pc = "start_service"
    /\ \E ok \in BOOLEAN, desc \in {"null", "port0", "usable"} :
        /\ ~ok => desc = "null"
        /\ service' = IF desc = "null" THEN NULL ELSE 1
        /\ port' = IF desc = "usable" THEN 49152 ELSE 0
        /\ IF ok
           THEN /\ res' = Release(IF desc = "null" THEN res
                                  ELSE Acquire(res, "service"), "lockdown")
                /\ events' = Append(Append(events, Ev("start_service")),
                                    Ev("lockdownd_client_free"))
                /\ pc' = "connect"
           ELSE /\ res' = Release(Release(res, "lockdown"), "device")
                /\ events' = Append(Append(Append(events, Ev("start_service")),
                                 Ev("lockdownd_client_free")), Ev("idevice_free"))
                /\ pc' = "cleanup"
    /\ UNCHANGED <<optv, optind, cmdArg, timeout, udid, use_network, cmd, result,
                   power_client, assertion, device, perr, status, usage,
                   request, slept>>

(* Lines 196-198: where main() goes on after power_client_new returned. *)
AfterConnect_holds_anyway(ret) ==
    IF ret # POWER_E_SUCCESS THEN "hold" ELSE "send"

AfterConnect_goes_to_cleanup(ret) ==
    IF ret # POWER_E_SUCCESS THEN "cleanup" ELSE "send"

AfterConnect(ret) ==
    IF ret # POWER_E_SUCCESS THEN "service_free" ELSE "send"

(* Lines 195-198 and 240-242: power_client_new on a usable descriptor. *)
Connect ==
    /\ pc = "connect"
    /\ IF service # NULL /\ port > 0
       THEN \E openErr \in TransportCodes :
              LET r == power_client_new(device, service, port, 1, power_client,
                                        openErr, 1)
                  opened == r.opened /\ openErr = "PROPERTY_LIST_SERVICE_E_SUCCESS"
                  res1 == IF opened THEN Acquire(res, "session") ELSE res
              IN  /\ power_client' = r.slot
                  /\ res' = IF r.alloc THEN Acquire(res1, "client") ELSE res1
                  /\ events' = Append(events, EvRet("power_client_new", r.ret))
                  /\ pc' = AfterConnect(r.ret)
       ELSE /\ pc' = "service_free"
            /\ UNCHANGED <<power_client, res, events>>
    /\ UNCHANGED <<optv, optind, cmdArg, timeout, udid, use_network, cmd, result,
                   assertion, device, service, port, perr, status, usage,
                   request, slept>>

(* The switch of lines 202-212: the assertion type of a command, "" when the
   switch sets none. *)
AssertionType(mode) ==
    CASE mode = CMD_WIRELESS_SYNC -> "AMDPowerAssertionTypeWirelessSync"
      [] mode = CMD_USER_IDLE_SLEEP -> "PreventUserIdleSystemSleep"
      [] mode = CMD_SYSTEM_SLEEP -> "PreventSystemSleep"
      [] OTHER -> ""

(* Lines 199-216: the request document. *)
BuildAssertion_with_hold_duration(mode, seconds) ==
    [built |-> TRUE, CommandKey |-> "CommandCreateAssertion",
     AssertionTypeKey |-> AssertionType(mode),
     AssertionNameKey |-> "idevicepower",
     AssertionTimeoutKey |-> IF seconds > 10 THEN seconds - 10 ELSE seconds,
     AssertionDetailKey |-> "power update"]

BuildAssertion(mode, seconds) ==
    [built |-> TRUE, CommandKey |-> "CommandCreateAssertion",
     AssertionTypeKey |-> AssertionType(mode),
     AssertionNameKey |-> "idevicepower",
     AssertionTimeoutKey |-> seconds,
     AssertionDetailKey |-> "power update"]

(* Lines 222-225: where main() goes on after power_send returned. *)
AfterSend_retries(ret) ==
    IF ret # POWER_E_SUCCESS THEN "send" ELSE "receive"

AfterSend_skips_hold(ret) ==
    IF ret # POWER_E_SUCCESS THEN "service_free" ELSE "receive"

AfterSend(ret) ==
    IF ret # POWER_E_SUCCESS THEN "hold" ELSE "receive"

(* Lines 199-224: build the request, power_send, release the request. *)
Send ==
    /\ pc = "send"
    /\ \E sendErr \in TransportCodes :
        LET r == power_send(power_client, 1, sendErr)
        IN  /\ ~r.ub
            /\ request' = BuildAssertion(cmd, timeout)
            /\ perr' = r.ret
            /\ events' = Append(events, EvRet("power_send", r.ret))
            /\ pc' = AfterSend(r.ret)
    /\ res' = Release(Acquire(res, "request"), "request")
    /\ assertion' = NULL
    /\ UNCHANGED <<optv, optind, cmdArg, timeout, udid, use_network, cmd, result,
                   power_client, device, service, port, status, usage, slept>>

(* Lines 227-231: result after power_receive returned. *)
ResultAfterReceive_ignores_error(before, ret) == EXIT_SUCCESS

ResultAfterReceive(before, ret) ==
    IF ret # POWER_E_SUCCESS THEN before ELSE EXIT_SUCCESS

(* Lines 225-231: power_receive into assertion. *)
Receive ==
    /\ pc = "receive"
    /\ \E arrival \in {-1, 999, 1000}, fault \in ReceiveFaults,
          withDoc \in BOOLEAN :
        LET t == power_receive(power_client, assertion,
                               "PROPERTY_LIST_SERVICE_E_SUCCESS", NULL).timeout
            x == property_list_service_receive(t, arrival, fault, withDoc)
            outplist == IF x.hasDoc THEN 1 ELSE NULL
            r == power_receive(power_client, assertion, x.err, outplist)
            res1 == IF outplist # NULL THEN Acquire(res, "response") ELSE res
        IN  /\ ~r.ub
            /\ assertion' = r.slot
            /\ res' = IF r.released # NULL THEN Release(res1, "response") ELSE res1
            /\ perr' = r.ret
            /\ result' = ResultAfterReceive(result, r.ret)
            /\ events' = Append(events, EvRet("power_receive", r.ret))
    /\ pc' = "hold"
    /\ UNCHANGED <<optv, optind, cmdArg, timeout, udid, use_network, cmd,
                   power_client, device, service, port, status, usage,
                   request, slept>>

(* Lines 234-235: the seconds to hold for. *)
HoldDuration_from_ten(seconds) ==
    IF seconds >= 10 THEN seconds - 10 ELSE seconds

HoldDuration(seconds) ==
    IF seconds > 10 THEN seconds - 10 ELSE seconds

(* Lines 234-237: sleep. *)
Hold ==
    /\ pc = "hold"
    /\ timeout' = HoldDuration(timeout)
    /\ slept' = HoldDuration(timeout)
    /\ events' = Append(events, Ev("sleep"))
    /\ pc' = "client_free"
    /\ UNCHANGED <<optv, optind, cmdArg, udid, use_network, cmd, result,
                   power_client, assertion, device, service, port, perr,
                   status, usage, res, request>>

(* Line 238: power_client_free; its result is dropped. *)
ClientFree ==
    /\ pc = "client_free"
    /\ \E closeErr \in TransportCodes :
        LET r == power_client_free(power_client, closeErr)
            res1 == ReleaseTimes(res, "session", r.closes)
        IN  /\ res' = IF r.freed THEN Release(res1, "client") ELSE res1
            /\ events' = Append(events, EvRet("power_client_free", r.ret))
    /\ pc' = "service_free"
    /\ UNCHANGED <<optv, optind, cmdArg, timeout, udid, use_network, cmd, result,
                   power_client, assertion, device, service, port, perr,
                   status, usage, request, slept>>

(* Lines 244-247: lockdownd_service_descriptor_free. *)
ServiceFree ==
    /\ pc = "service_free"
    /\ IF service # NULL
       THEN /\ res' = Release(res, "service")
            /\ events' = Append(events, Ev("lockdownd_service_descriptor_free"))
            /\ service' = NULL
       ELSE UNCHANGED <<res, events, service>>
    /\ pc' = "device_free"
    /\ UNCHANGED <<optv, optind, cmdArg, timeout, udid, use_network, cmd, result,
                   power_client, assertion, device, port, perr, status,
                   usage, request, slept>>

(* Line 249: idevice_free. *)
DeviceFree ==
    /\ pc = "device_free"
    /\ res' = Release(res, "device")
    /\ events' = Append(events, Ev("idevice_free"))
    /\ pc' = "cleanup"
    /\ UNCHANGED <<optv, optind, cmdArg, timeout, udid, use_network, cmd, result,
                   power_client, assertion, device, service, port, perr,
                   status, usage, request, slept>>

(* Lines 251-258: the cleanup label and the return. *)
Cleanup ==
    /\ pc = "cleanup"
    /\ IF assertion # NULL
       THEN /\ res' = Release(res, "response")
            /\ events' = Append(events, Ev("plist_free"))
       ELSE UNCHANGED <<res, events>>
    /\ Return(result)
    /\ UNCHANGED <<optv, optind, cmdArg, timeout, udid, use_network, cmd, result,
                   power_client, assertion, device, service, port, perr,
                   usage, request, slept>>

-----------------------------------------------------------------------------
(* The specifications. *)

(* The client API under an arbitrary caller. *)
Init == LibInit /\ DrvParked

Next ==
    \/ NewCall /\ UNCHANGED drvvars
    \/ FreeCall /\ UNCHANGED drvvars
    \/ SendCall /\ UNCHANGED drvvars
    \/ RecvCall /\ UNCHANGED drvvars
    \/ ReleaseDoc /\ UNCHANGED drvvars
    \/ TranslateCall /\ UNCHANGED drvvars

Spec == Init /\ [][Next]_vars

(* One run of the driver. *)
DriverInit == DrvInit /\ LibParked

DriverNext ==
    \/ GetOpt /\ UNCHANGED libvars
    \/ Command /\ UNCHANGED libvars
    \/ DeviceNew /\ UNCHANGED libvars
    \/ Handshake /\ UNCHANGED libvars
    \/ StartService /\ UNCHANGED libvars
    \/ Connect /\ UNCHANGED libvars
    \/ Send /\ UNCHANGED libvars
    \/ Receive /\ UNCHANGED libvars
    \/ Hold /\ UNCHANGED libvars
    \/ ClientFree /\ UNCHANGED libvars
    \/ ServiceFree /\ UNCHANGED libvars
    \/ DeviceFree /\ UNCHANGED libvars
    \/ Cleanup /\ UNCHANGED libvars

DriverSpec == DriverInit /\ [][DriverNext]_vars

(* One run of the driver that keeps running: main() is sequential code whose
   blocking calls (the bounded receive, the sleep) all return. *)
DriverFairSpec == DriverSpec /\ WF_vars(DriverNext)

-----------------------------------------------------------------------------
(* The taxonomy value the specification gives each transport code, as a
   table of its own. *)
TaxonomyOf ==
    [ e \in TransportCodes |->
        IF e = "PROPERTY_LIST_SERVICE_E_SUCCESS" THEN POWER_E_SUCCESS
        ELSE IF e = "PROPERTY_LIST_SERVICE_E_INVALID_ARG" THEN POWER_E_INVALID_ARG
        ELSE IF e = "PROPERTY_LIST_SERVICE_E_PLIST_ERROR" THEN POWER_E_PLIST_ERROR
        ELSE IF e = "PROPERTY_LIST_SERVICE_E_MUX_ERROR" THEN POWER_E_MUX_ERROR
        ELSE IF e = "PROPERTY_LIST_SERVICE_E_SSL_ERROR" THEN POWER_E_SSL_ERROR
        ELSE IF e = "PROPERTY_LIST_SERVICE_E_NOT_ENOUGH_DATA" THEN POWER_E_NOT_ENOUGH_DATA
        ELSE IF e = "PROPERTY_LIST_SERVICE_E_RECEIVE_TIMEOUT" THEN POWER_E_TIMEOUT
        ELSE POWER_E_UNKNOWN_ERROR ]

IsReceive == last.op \in {"receive", "receive_with_timeout"}

(* C1: whenever the transport's receive primitive reports a receive timeout
   (no document before the deadline), receive / receive_with_timeout returns
   Timeout, never Success, for every client and timeout value. *)
C1_ReceiveTimeoutReturnsTimeout ==
    (IsReceive /\ last.client # NULL /\ last.returned
        /\ last.xerr = "PROPERTY_LIST_SERVICE_E_RECEIVE_TIMEOUT")
    => last.ret = POWER_E_TIMEOUT

(* C2: receive keeps the transport's failure outcomes apart: a malformed
   payload yields PlistError, and a response that never arrived (receive
   timeout, not enough data) yields Timeout or NotEnoughData, never the value
   returned for the malformed payload. *)
C2_ReceiveFailuresDistinct ==
    (IsReceive /\ last.client # NULL /\ last.returned)
    => /\ last.xerr = "PROPERTY_LIST_SERVICE_E_PLIST_ERROR"
            => last.ret = POWER_E_PLIST_ERROR
       /\ last.xerr \in { "PROPERTY_LIST_SERVICE_E_RECEIVE_TIMEOUT",
                          "PROPERTY_LIST_SERVICE_E_NOT_ENOUGH_DATA" }
            => last.ret \in {POWER_E_TIMEOUT, POWER_E_NOT_ENOUGH_DATA}

(* C3: when the transport's receive primitive reports success but supplies
   no document, receive returns MuxError, never Success; and every Success
   return of receive leaves a live document, the one the transport supplied,
   in the output slot. *)
C3_SuccessCarriesDocument ==
    (IsReceive /\ last.returned)
    => /\ (last.xerr = "PROPERTY_LIST_SERVICE_E_SUCCESS" /\ last.outplist = NULL)
            => last.ret = POWER_E_MUX_ERROR
       /\ last.ret = POWER_E_SUCCESS
            => /\ last.outplist # NULL
               /\ last.slotAfter = last.outplist
               /\ doc = last.outplist
               /\ docs[last.outplist] = "live"

C3_Witness ==
    /\ IsReceive /\ last.returned /\ last.client # NULL
    /\ last.xerr = "PROPERTY_LIST_SERVICE_E_SUCCESS"
    /\ last.outplist = NULL
    /\ last.ret = POWER_E_MUX_ERROR

(* C4: send with a null client or a null document returns InvalidArgument
   and does not invoke the transport's send primitive. *)
C4_SendRejectsNull ==
    (last.op = "send" /\ (last.client = NULL \/ last.plist = NULL))
    => /\ last.returned
       /\ last.ret = POWER_E_INVALID_ARG
       /\ ~last.xcalled

(* C5: receive (both variants) with a null client, or with an output slot
   that already holds a document, returns InvalidArgument, does not invoke
   the transport's receive primitive and leaves the output slot as it was. *)
C5_ReceiveRejectsBadArguments ==
    (IsReceive /\ (last.client = NULL \/ last.slotBefore # NULL))
    => /\ last.returned
       /\ last.ret = POWER_E_INVALID_ARG
       /\ ~last.xcalled
       /\ last.slotAfter = last.slotBefore
       /\ doc = last.slotBefore

(* C6: new fails with InvalidArgument, without opening a transport session,
   when the device or service handle is null or when the caller's output
   slot already holds a client; in that last case the client in the slot is
   not replaced. *)
C6_NewRejectsBadArguments ==
    (last.op = "new" /\ last.clientp # NULL
        /\ (last.device = NULL \/ last.service = NULL \/ last.slotBefore # NULL))
    => /\ last.returned
       /\ last.ret = POWER_E_INVALID_ARG
       /\ ~last.xcalled
       /\ last.slotBefore # NULL => last.slotAfter = last.slotBefore

(* C7: new on a valid session (valid device and service, a session the
   transport opens and closes without a fault) followed immediately by free:
   both calls return Success and the session has been closed exactly once. *)
C7_NewThenFree ==
    (last.op = "free" /\ last.afterNew
        /\ last.xerr = "PROPERTY_LIST_SERVICE_E_SUCCESS")
    => /\ last.newRet = POWER_E_SUCCESS
       /\ last.ret = POWER_E_SUCCESS
       /\ sessions[last.session].st = "closed"
       /\ sessions[last.session].closes = 1

C7_Witness ==
    /\ last.op = "free" /\ last.afterNew
    /\ last.xerr = "PROPERTY_LIST_SERVICE_E_SUCCESS"
    /\ last.ret = POWER_E_SUCCESS
    /\ sessions[last.session].closes = 1

(* C8: free(null) returns InvalidArgument and closes nothing; free on a live
   client closes the owned session once, releases the client whatever the
   close reports, and returns the taxonomy value of what the close
   reported. *)
C8_Free ==
    (last.op = "free")
    => /\ last.client = NULL
            => /\ last.ret = POWER_E_INVALID_ARG
               /\ ~last.xcalled
               /\ last.session = NULL
       /\ last.client # NULL
            => /\ last.xcalled
               /\ sessions[last.session].st = "closed"
               /\ sessions[last.session].closes = 1
               /\ clients[last.client].st = "freed"
               /\ last.ret = TaxonomyOf[last.xerr]

C8_Witness ==
    /\ last.op = "free" /\ last.client # NULL
    /\ last.xerr = "PROPERTY_LIST_SERVICE_E_MUX_ERROR"
    /\ last.ret = POWER_E_MUX_ERROR
    /\ clients[last.client].st = "freed"
    /\ sessions[last.session].closes = 1

(* C9: the translation of transport codes is total: each of success,
   invalid-arg, plist-error, mux-error, ssl-error, not-enough-data and
   receive-timeout maps to its own taxonomy value and every other transport
   code maps to UnknownError. *)
C9_TranslationTable ==
    (last.op = "power_error")
    => /\ last.returned
       /\ last.ret \in PowerErrors
       /\ last.ret = TaxonomyOf[last.xerr]
       /\ last.xerr \notin DefinedTransportCodes => last.ret = POWER_E_UNKNOWN_ERROR

C9_Witness ==
    /\ last.op = "power_error"
    /\ last.xerr = "PROPERTY_LIST_SERVICE_E_RECEIVE_TIMEOUT"
    /\ last.ret = POWER_E_TIMEOUT

(* The options of the command line are all ones main() accepts. *)
OptionsAccepted ==
    \A i \in 1..Len(optv) :
        \/ optv[i].c \in {"d", "n"}
        \/ optv[i].c = "u" /\ optv[i].optarg # ""
        \/ optv[i].c = "t" /\ optv[i].optarg # "" /\ atoi(optv[i].optarg) > 0

DeviceResolutionAttempted ==
    \E i \in 1..Len(events) : events[i].op = "idevice_new"

(* C10: invoked with a sub-command other than sync, idle or sleep, the
   driver reports a usage error, exits with status 2 and never attempts
   device resolution. *)
C10_UnknownCommandExits2 ==
    (pc = "exit" /\ OptionsAccepted /\ cmdArg \notin {"", "sync", "idle", "sleep"})
    => /\ usage = "stderr"
       /\ status = 2
       /\ ~DeviceResolutionAttempted

-----------------------------------------------------------------------------
(* What a run of the driver did, read off its command line and events. *)

EventAt(i, op) == i \in 1..Len(events) /\ events[i].op = op

EventIs(i, op, ret) == EventAt(i, op) /\ events[i].ret = ret

(* How often an operation occurs in the run. *)
Count(op) == Cardinality({i \in 1..Len(events) : events[i].op = op})

(* The place of the first occurrence of an operation in the run, 0 when it
   does not occur. *)
Pos(op) ==
    LET I == {i \in 1..Len(events) : events[i].op = op}
    IN  IF I = {} THEN 0 ELSE CHOOSE i \in I : \A j \in I : i <= j

(* The run ended in the option loop on a help or version request. *)
HelpOrVersion ==
    optind > 1 /\ optv[optind - 1].c \in {"h", "v"}

(* power_send returned Success and the power_receive after it did too. *)
SendAndReceiveSucceeded ==
    \E i \in 1..Len(events) :
        /\ EventIs(i, "power_send", POWER_E_SUCCESS)
        /\ EventIs(i + 1, "power_receive", POWER_E_SUCCESS)

(* power_client_new returned Success. *)
Connected ==
    \E i \in 1..Len(events) : EventIs(i, "power_client_new", POWER_E_SUCCESS)

(* The timeout the command line asks for: that of its last timeout option,
   60 seconds when it has none. *)
RequestedTimeout ==
    LET T == {i \in 1..Len(optv) : optv[i].c = "t"}
    IN  IF T = {} THEN 60
        ELSE atoi(optv[CHOOSE i \in T : \A j \in T : j <= i].optarg)

(* C11 as stated: the driver exits with status 0 if and only if send
   returned Success and the receive after it returned Success. *)
C11_ExitZeroIffSendAndReceive ==
    pc = "exit" => (status = 0 <=> SendAndReceiveSucceeded)

(* C11 amended: the driver exits with status 0 if and only if the run was a
   help or version request, or send returned Success and the receive after
   it returned Success; any failure of device resolution, handshake, service
   start, client connection, send or receive gives a non-zero status. *)
C11_ExitZeroIffSuccessOrHelp ==
    pc = "exit" => (status = 0 <=> (HelpOrVersion \/ SendAndReceiveSucceeded))

C11_Witness ==
    /\ pc = "exit" /\ status = 0
    /\ SendAndReceiveSucceeded
    /\ ~HelpOrVersion

(* C12: once the client is connected the driver holds for exactly
   (requested timeout - 10) seconds when the requested timeout exceeds 10
   and for exactly the requested timeout otherwise, whatever send and
   receive returned. *)
C12_HoldDuration ==
    /\ slept # -1
         => slept = IF RequestedTimeout > 10 THEN RequestedTimeout - 10
                    ELSE RequestedTimeout
    /\ (pc = "exit" /\ Connected) => slept # -1

C12_Witness ==
    /\ pc = "exit" /\ Connected
    /\ RequestedTimeout = 10 /\ slept = 10
    /\ \E i \in 1..Len(events) : EventAt(i, "power_send") /\ events[i].ret # POWER_E_SUCCESS

(* C13: the request document the driver sends carries the caller's requested
   timeout in AssertionTimeoutKey (not the reduced hold duration) and the
   one assertion type name of the sub-command: sync ->
   AMDPowerAssertionTypeWirelessSync, idle -> PreventUserIdleSystemSleep,
   sleep -> PreventSystemSleep. *)
C13_RequestDocument ==
    request.built
    => /\ request.AssertionTimeoutKey = RequestedTimeout
       /\ cmdArg \in {"sync", "idle", "sleep"}
       /\ cmdArg = "sync"
            => request.AssertionTypeKey = "AMDPowerAssertionTypeWirelessSync"
       /\ cmdArg = "idle"
            => request.AssertionTypeKey = "PreventUserIdleSystemSleep"
       /\ cmdArg = "sleep"
            => request.AssertionTypeKey = "PreventSystemSleep"

C13_Witness ==
    /\ pc = "exit" /\ status = 0
    /\ cmdArg = "idle"
    /\ request.built
    /\ request.AssertionTypeKey = "PreventUserIdleSystemSleep"
    /\ request.AssertionTimeoutKey = 30
    /\ slept = 20

(* The run held, then freed the client, then the service descriptor, then
   the device handle, all after the client was connected. *)
HeldThenReleased ==
    LET c == Pos("power_client_new")
        h == Pos("sleep")
        f == Pos("power_client_free")
        sv == Pos("lockdownd_service_descriptor_free")
        dv == Pos("idevice_free")
    IN  /\ 0 < c /\ c < h /\ h < f /\ f < sv /\ sv < dv
        /\ events[c].ret = POWER_E_SUCCESS

(* C14: in every run where the client was connected, whatever send and
   receive return, the driver eventually holds, then frees the client, then
   frees the service descriptor and the device handle, and terminates. *)
C14_HoldAndCleanupFollow ==
    [](Connected => <>(pc = "exit" /\ HeldThenReleased))

C14_Witness ==
    /\ pc = "exit" /\ HeldThenReleased
    /\ \E i \in 1..Len(events) :
        /\ EventIs(i, "power_send", POWER_E_SUCCESS)
        /\ EventAt(i + 1, "power_receive")
        /\ events[i + 1].ret # POWER_E_SUCCESS
    /\ status # 0


(* C15: at every point of a run no resource of the driver (device handle,
   lockdown connection, service descriptor, client, session, request
   document, response document) has been acquired more than once or released
   more often than acquired, and when main() has returned, on whichever path,
   every resource that was acquired has been released exactly once. *)
C15_ReleasedExactlyOnce ==
    /\ \A n \in Resources : res[n].acq <= 1 /\ res[n].rel <= res[n].acq
    /\ pc = "exit" => \A n \in Resources : res[n].rel = res[n].acq

(* A run that acquired every resource, failed in power_receive with a
   document from the transport, and returned with all of them released. *)
C15_Witness ==
    /\ pc = "exit"
    /\ status # 0
    /\ \A n \in Resources : res[n].acq = 1 /\ res[n].rel = 1
    /\ \E i \in 1..Len(events) :
          EventAt(i, "power_receive") /\ events[i].ret # POWER_E_SUCCESS

(* What one receive call makes of a transport behaviour: the transport is
   asked with the timeout the call hands down, a document arrives after
   `arrival` ms (never when negative) or the transport faults. *)
ReceiveOutcome(variant, client, slotVal, timeout_ms, arrival, fault, withDoc) ==
    LET t == ReceiveResult(variant, client, slotVal, timeout_ms,
                           "PROPERTY_LIST_SERVICE_E_SUCCESS", NULL).timeout
        x == property_list_service_receive(t, arrival, fault, withDoc)
        outplist == IF x.hasDoc THEN 1 ELSE NULL
        r == ReceiveResult(variant, client, slotVal, timeout_ms, x.err, outplist)
    IN  [ub |-> r.ub, ret |-> r.ret, slot |-> r.slot, released |-> r.released]

(* C16: power_receive is power_receive_with_timeout with 1000 ms.  In every
   state, for every client argument and every transport behaviour (arrival
   before, at and after 1000 ms, each fault, with and without a document) the
   two yield the same error code, the same output slot and release the same
   document; and a power_receive that returned asked the transport with
   1000 ms and returned what power_receive_with_timeout(1000) returns on the
   same transport result. *)
C16_ReceiveIsReceiveWithTimeout1000 ==
    /\ \A client \in ClientArgs, arrival \in {-1, 0, 999, 1000, 1001, 4999, 5000},
          fault \in ReceiveFaults, withDoc \in BOOLEAN :
          ReceiveOutcome("receive", client, doc, 1000, arrival, fault, withDoc)
            = ReceiveOutcome("receive_with_timeout", client, doc, 1000,
                             arrival, fault, withDoc)
    /\ (last.op = "receive" /\ last.returned /\ last.client # NULL) =>
          LET r == power_receive_with_timeout(last.client, last.slotBefore, 1000,
                                              last.xerr, last.outplist)
          IN  /\ last.timeout = 1000
              /\ last.ret = r.ret
              /\ last.slotAfter = r.slot
              /\ last.released = r.released

(* power_receive returned after the transport timed out at 1000 ms. *)
C16_Witness ==
    /\ last.op = "receive" /\ last.returned /\ last.client # NULL
    /\ last.timeout = 1000
    /\ last.xerr = "PROPERTY_LIST_SERVICE_E_RECEIVE_TIMEOUT"
    /\ last.ret = POWER_E_MUX_ERROR
    /\ last.slotAfter = last.slotBefore

(* The options getopt_long has returned so far. *)
Processed == 1..(optind - 1)

(* A -t option with a value that does not read as a number above 0 has been
   returned by getopt_long. *)
NonPositiveTimeoutSupplied ==
    \E i \in Processed :
        optv[i].c = "t" /\ optv[i].optarg # "" /\ atoi(optv[i].optarg) <= 0

(* C17: without a -t option the timeout is 60 (it is 60 until the hold, the
   request carries 60 and the hold is the 50 derived from it); once a -t
   value that is not greater than 0 has been read the run has ended with
   status 2 without any device operation; and no request carries and no
   sleep is given a timeout that is not greater than 0. *)
C17_TimeoutDefaultAndRejection ==
    /\ (\A i \in 1..Len(optv) : optv[i].c # "t") =>
          /\ slept = -1 => timeout = 60
          /\ request.built => request.AssertionTimeoutKey = 60
          /\ slept # -1 => slept = 50
    /\ NonPositiveTimeoutSupplied =>
          pc = "exit" /\ status = 2 /\ events = <<>> /\ ~request.built
    /\ request.built => request.AssertionTimeoutKey > 0
    /\ slept # -1 => slept > 0

(* -t 0 was the option read last: the run ended with status 2 before
   idevice_new_with_options. *)
C17_Witness ==
    /\ pc = "exit" /\ status = 2 /\ events = <<>>
    /\ optind > 1
    /\ optv[optind - 1].c = "t" /\ optv[optind - 1].optarg = "0"
    /\ cmdArg = "idle"

(* C18: when receive returned anything but Success, the caller's output slot
   holds what it held before the call and the document the transport
   produced, if any, has been freed by receive; the slot differs from its
   value before the call only after a Success return, and then it holds the
   document the transport produced, not freed. *)
C18_ReceiveFrame ==
    (IsReceive /\ last.returned)
    => /\ last.ret # POWER_E_SUCCESS
            => /\ last.slotAfter = last.slotBefore
               /\ doc = last.slotBefore
               /\ last.outplist # NULL
                    => /\ last.released = last.outplist
                       /\ docs[last.outplist] = "freed"
       /\ last.slotAfter # last.slotBefore
            => /\ last.ret = POWER_E_SUCCESS
               /\ last.slotAfter = last.outplist
               /\ last.released = NULL
               /\ docs[last.slotAfter] = "live"

(* receive failed on a transport fault that came with a document, while the
   slot held the document of an earlier receive: the slot still holds it
   and the new document is freed. *)
C18_Witness ==
    /\ IsReceive /\ last.returned /\ last.client # NULL
    /\ last.ret = POWER_E_MUX_ERROR
    /\ last.xerr \notin {"none", "PROPERTY_LIST_SERVICE_E_SUCCESS"}
    /\ last.outplist # NULL /\ docs[last.outplist] = "freed"
    /\ last.slotBefore # NULL
    /\ doc = last.slotBefore /\ docs[doc] = "live"

(* C19: a run calls power_send at most once and power_receive at most once,
   a power_receive is directly preceded by the power_send and that one
   returned Success, and a call that failed is the last call of its kind
   (no retry). *)
C19_SingleExchange ==
    /\ Count("power_send") <= 1
    /\ Count("power_receive") <= 1
    /\ \A i \in 1..Len(events) :
          EventAt(i, "power_receive") =>
              EventIs(i - 1, "power_send", POWER_E_SUCCESS)
    /\ \A i, j \in 1..Len(events) :
          (/\ i < j
           /\ events[i].op \in {"power_client_new", "power_send", "power_receive"}
           /\ events[i].ret # POWER_E_SUCCESS)
          => events[j].op \notin {"power_client_new", "power_send", "power_receive"}

(* A run whose power_send failed and that went on to hold and return
   without a power_receive or a second power_send. *)
C19_Witness ==
    /\ pc = "exit"
    /\ Count("power_send") = 1 /\ Count("power_receive") = 0
    /\ events[Pos("power_send")].ret # POWER_E_SUCCESS
    /\ Pos("sleep") > Pos("power_send")

ClientOps == {"power_send", "power_receive", "power_client_free"}

(* C20: every power_send, power_receive and power_client_free of a run comes
   after a power_client_new that returned Success (the driver holds the
   client that call stored), and nothing is done with the client after
   power_client_free: it is called at most once and no client operation
   follows it. *)
C20_ClientOpsOnlyOnLiveClient ==
    /\ \A i \in 1..Len(events) :
          events[i].op \in ClientOps =>
              /\ 0 < Pos("power_client_new") /\ Pos("power_client_new") < i
              /\ events[Pos("power_client_new")].ret = POWER_E_SUCCESS
    /\ Count("power_client_new") <= 1
    /\ Count("power_client_free") <= 1
    /\ \A i, j \in 1..Len(events) :
          (i < j /\ EventAt(i, "power_client_free"))
              => events[j].op \notin ClientOps \cup {"power_client_new"}
    /\ pc \in {"send", "receive", "hold", "client_free"} => power_client # NULL

(* A run that connected, sent, received and freed the client once, the
   free coming after the receive and before the device release. *)
C20_Witness ==
    /\ pc = "exit"
    /\ Connected
    /\ Count("power_send") = 1 /\ Count("power_receive") = 1
    /\ Count("power_client_free") = 1
    /\ Pos("power_client_free") > Pos("power_receive")
    /\ Pos("idevice_free") > Pos("power_client_free")

(* What a returned power_client_new is required to have done, between the
   state before the call and the state after it. *)
NewAllocatedClient ==
    /\ slot' # NULL
    /\ clients[slot'].st = "unalloc"
    /\ clients'[slot'].st = "live"
    /\ clients'[slot'].parent # NULL
    /\ sessions'[clients'[slot'].parent].st = "open"

NewOpenFailed ==
    /\ last'.xcalled
    /\ last'.xerr # "PROPERTY_LIST_SERVICE_E_SUCCESS"

(* C21: a power_client_new that returns has returned Success if and only if
   the caller's slot now holds a client that was not allocated before the
   call, is live, and wraps a non-null session that is open; and when the
   transport failed to open the session, the call returned the taxonomy value
   of the transport's error, no client was allocated and the slot is null. *)
C21_NewContract ==
    [][ (last'.op = "new" /\ last'.returned) =>
            /\ last'.ret = POWER_E_SUCCESS <=> NewAllocatedClient
            /\ NewOpenFailed =>
                  /\ last'.ret = TaxonomyOf[last'.xerr]
                  /\ last'.ret # POWER_E_SUCCESS
                  /\ clients' = clients
                  /\ slot' = NULL ]_vars

(* power_client_new returned Success and the slot holds the new client on
   its open session. *)
C21_Witness ==
    /\ last.op = "new" /\ last.returned
    /\ last.ret = POWER_E_SUCCESS
    /\ last.xerr = "PROPERTY_LIST_SERVICE_E_SUCCESS"
    /\ slot # NULL /\ slot = last.client
    /\ clients[slot].st = "live"
    /\ clients[slot].parent = last.session
    /\ sessions[last.session].st = "open"

=========================================================================
